---- MODULE Spec2Model ----
(***************************************************************************)
(* crashcart-ng: the injection pipeline (image handle, mount orchestrator, *)
(* namespace guard) as a state machine.  One action per public operation;  *)
(* each action runs the whole handler.  Every fallible syscall or          *)
(* subprocess may succeed or fail: an operation maps the context at its    *)
(* entry to the set of contexts it can return with, and the action picks   *)
(* one of them.                                                            *)
(***************************************************************************)
EXTENDS Integers, Sequences, FiniteSets, TLC

\* ------------------------------------------------------------------ bounds
\* Number of loop devices in the host pool (/dev/loop0 .. /dev/loop<MaxLoop-1>).
MaxLoop == 2
\* How many operations one invocation performs on its handle.
MaxCalls == 2

\* --------------------------------------------------------------- constants
CRASHCART_MOUNT_PATH == "/dev/crashcart"
CRASHCART_LOOP_DIR == "/dev/cc-loop"
LoopPrefix == "/dev/loop"
LoopMajor == 7
MinImageLen == 1024
MagicOffset == 1080

Dev == 0 .. (MaxLoop - 1)
None == <<>>
Some(x) == <<x>>

\* The string "/dev/loop<n>" printed by losetup -f.
LoopPath(n) == [prefix |-> LoopPrefix, num |-> n]

\* Image files: length in bytes, and whether bytes 0x53 0xEF sit at offset 1080.
Images ==
  { [len |-> 512, magic |-> FALSE],
    [len |-> 1024, magic |-> FALSE],
    [len |-> 2048, magic |-> FALSE],
    [len |-> 2048, magic |-> TRUE] }

VARIABLES
  image,       \* the image file behind the handle
  targetNs,    \* mount namespace of the target pid: "host" or "container"
  loops,       \* host loop pool: Dev -> "free" | "image" (bound to the image)
  slot,        \* ImageManager.loop_device of the caller's handle: None or Some(path)
  mounts,      \* the target's mount table (/proc/<pid>/mounts), oldest first
  dirs,        \* which of the two fixed directories exist in the target
  node,        \* /dev/cc-loop/crashcart: None or Some([major, minor])
  rcfile,      \* /dev/crashcart/.crashcartrc is visible
  callerNs,    \* mount namespace the tool's process is attached to
  lastOp,      \* the operation that ran last
  result,      \* what it returned: "ok" | "err"
  trace,       \* the steps it performed, in order
  cloneSlot,   \* loop_device of its private duplicate handle when dropped
  cleanBefore, \* the target was clean when it began
  prev,        \* the operation before it: [op, result, clean]
  calls,       \* operations performed so far
  racers,      \* concurrent invocations: each one's position and context
  proc         \* the command-line process: arguments, position, exit status

vars == <<image, targetNs, loops, slot, mounts, dirs, node, rcfile, callerNs,
          lastOp, result, trace, cloneSlot, cleanBefore, prev, calls,
          racers, proc>>

\* ------------------------------------------------------------ call context
\* The world as one call sees and changes it.  hs is loop_device of the
\* handle the call works on (the caller's handle, or the duplicate an
\* orchestrator call makes of it: cloned); found is the device losetup -f
\* printed; guard is the NamespaceGuard's original_ns; st is "run" until the
\* call returns through an error ("err").
Ctx ==
  [loops |-> loops, mounts |-> mounts, dirs |-> dirs, node |-> node,
   rcfile |-> rcfile, ns |-> callerNs, guard |-> None, hs |-> slot,
   cloned |-> FALSE, found |-> None, trace |-> <<>>, st |-> "run"]

Log(c, step, out, dev) ==
  [c EXCEPT !.trace = Append(@, [step |-> step, out |-> out, ns |-> c.ns,
                                 guarded |-> c.guard # None, dev |-> dev])]

Fail(c) == [c EXCEPT !.st = "err"]

\* The step logged last did not succeed.
Failed(c) == c.trace[Len(c.trace)].out = "fail"

Res(c) == IF c.st = "err" THEN "err" ELSE "ok"

\* Run step f from every context of C.
Then(C, f(_)) == UNION {f(c) : c \in C}

FreeDevs(l) == {d \in Dev : l[d] = "free"}

Min(S) == CHOOSE x \in S : \A y \in S : x <= y

\* verify_image that accepts only an image carrying the ext magic.
verify_image_requires_magic(img) ==
  IF img.len < MinImageLen THEN "err"
  ELSE IF img.len >= MagicOffset + 2 /\ img.magic THEN "ok"
  ELSE "err"

\* --------------------------------------------------------- image handle
\* Err for a file shorter than the 1024-byte header; else the two magic bytes
\* at offset 1080 are looked for, and the image is accepted either way.
verify_image(img) ==
  IF img.len < MinImageLen THEN "err"
  ELSE IF img.len >= MagicOffset + 2 /\ img.magic THEN "ok"
  ELSE "ok"

\* losetup -f: prints the first unused device; fails when there is none.
get_free_loop_device(c) ==
  {Fail(Log(c, "losetup_f", "fail", None))}
  \cup IF FreeDevs(c.loops) = {} THEN {}
       ELSE LET d == Min(FreeDevs(c.loops))
            IN  {Log([c EXCEPT !.found = Some(LoopPath(d))], "losetup_f", "ok", Some(d))}

\* losetup <device> <image>: fails when the device is in use.
associate_loop_device(c, device) ==
  {Fail(Log(c, "losetup_assoc", "fail", Some(device.num)))}
  \cup IF c.loops[device.num] # "free" THEN {}
       ELSE {Log([c EXCEPT !.loops[device.num] = "image"],
                 "losetup_assoc", "ok", Some(device.num))}

\* setup_loop_device without the cached-device return.
setup_loop_device_no_cache(c) ==
  IF c.st # "run" THEN {c}
  ELSE LET bound ==
             Then(get_free_loop_device(c),
                  LAMBDA g : IF g.st = "err" THEN {g}
                             ELSE associate_loop_device(g, g.found[1]))
       IN  {IF a.st = "err" THEN a ELSE [a EXCEPT !.hs = a.found] : a \in bound}

\* Returns the cached device when the slot is set; else binds and records.
setup_loop_device(c) ==
  IF c.st # "run" \/ c.hs # None THEN {c}
  ELSE LET bound ==
             Then(get_free_loop_device(c),
                  LAMBDA g : IF g.st = "err" THEN {g}
                             ELSE associate_loop_device(g, g.found[1]))
       IN  {IF a.st = "err" THEN a ELSE [a EXCEPT !.hs = a.found] : a \in bound}

\* losetup -d <device>: fails when the device has no backing file.
cleanup_loop_device(c) ==
  IF c.st # "run" THEN {c}
  ELSE IF c.hs = None THEN {Log(c, "losetup_d", "skip", None)}
  ELSE LET n == c.hs[1].num
       IN  {Fail(Log(c, "losetup_d", "fail", Some(n)))}
           \cup IF c.loops[n] = "free" THEN {}
                ELSE {Log([c EXCEPT !.loops[n] = "free", !.hs = None],
                          "losetup_d", "ok", Some(n))}

\* The orchestrator working on the caller's handle itself, not a duplicate.
clone_handle_shares_slot(c) == c

\* let mut image_manager = image_manager.clone();
clone_handle(c) == [c EXCEPT !.cloned = TRUE]

\* ----------------------------------------------------- target mount table
\* A line of /proc/mounts whose second field is path.
is_mounted_in(m, path) == \E i \in 1 .. Len(m) : m[i].mp = path

TopMount(m, path) ==
  CHOOSE i \in 1 .. Len(m) :
    m[i].mp = path /\ \A j \in (i + 1) .. Len(m) : m[j].mp # path

\* umount(2): detaches the newest mount at path, with what was visible in it.
Detach(c, path) ==
  LET k == TopMount(c.mounts, path)
  IN  [c EXCEPT !.mounts = SubSeq(@, 1, k - 1) \o SubSeq(@, k + 1, Len(@)),
                !.rcfile = IF path = CRASHCART_MOUNT_PATH THEN FALSE ELSE @,
                !.node = IF path = CRASHCART_LOOP_DIR THEN None ELSE @]

TmpfsEntry == [mp |-> CRASHCART_LOOP_DIR, fstype |-> "tmpfs", minor |-> None, ro |-> FALSE]

ImageEntry(fs, minor) ==
  [mp |-> CRASHCART_MOUNT_PATH, fstype |-> fs, minor |-> Some(minor), ro |-> TRUE]

\* The kernel mounts the block device a node names when that loop device has
\* a backing file, and as ext2/3/4 only when the file carries the ext magic.
Mountable(c) ==
  /\ c.node # None
  /\ c.node[1].major = LoopMajor
  /\ c.node[1].minor \in Dev
  /\ c.loops[c.node[1].minor] # "free"
  /\ (c.loops[c.node[1].minor] = "image" => image.magic)

Clean ==
  /\ ~is_mounted_in(mounts, CRASHCART_MOUNT_PATH)
  /\ ~is_mounted_in(mounts, CRASHCART_LOOP_DIR)
  /\ dirs = {}

Injected == is_mounted_in(mounts, CRASHCART_MOUNT_PATH)

\* loop_device.strip_prefix("/dev/loop").unwrap_or("0")
strip_prefix_or_0(path) == IF path.prefix = LoopPrefix THEN path.num ELSE 0

\* --------------------------------------------- steps of the bash scripts
\* Under set -e a failing command ends the script: later steps see st = "err".
\* mkdir -p <path>: nothing to do, and nothing to fail, when it exists.
sh_mkdir_p(c, path, step) ==
  IF c.st # "run" THEN {c}
  ELSE IF path \in c.dirs THEN {Log(c, step, "skip", None)}
  ELSE {Fail(Log(c, step, "fail", None)),
        Log([c EXCEPT !.dirs = @ \cup {path}], step, "ok", None)}

\* if ! mountpoint -q /dev/cc-loop; then mount -t tmpfs tmpfs /dev/cc-loop; fi
sh_mount_tmpfs(c) ==
  IF c.st # "run" THEN {c}
  ELSE IF is_mounted_in(c.mounts, CRASHCART_LOOP_DIR)
  THEN {Log(c, "mount_tmpfs", "skip", None)}
  ELSE {Fail(Log(c, "mount_tmpfs", "fail", None)),
        Log([c EXCEPT !.mounts = Append(@, TmpfsEntry), !.node = None],
            "mount_tmpfs", "ok", None)}

\* mknod /dev/cc-loop/crashcart b 7 <minor> 2>/dev/null || true
sh_mknod(c, minor) ==
  IF c.st # "run" THEN {c}
  ELSE {Log(c, "mknod", "fail", Some(minor))}
       \cup IF c.node # None THEN {}
            ELSE {Log([c EXCEPT !.node = Some([major |-> LoopMajor, minor |-> minor])],
                      "mknod", "ok", Some(minor))}

\* mount -t ext4 -o ro /dev/cc-loop/crashcart /dev/crashcart
sh_mount_ext4(c) ==
  IF c.st # "run" THEN {c}
  ELSE {Fail(Log(c, "mount_ext4", "fail", None))}
       \cup IF ~Mountable(c) THEN {}
            ELSE {Log([c EXCEPT !.mounts = Append(@, ImageEntry("ext4", c.node[1].minor))],
                      "mount_ext4", "ok", Some(c.node[1].minor))}

mount_script(c, minor) ==
  IF is_mounted_in(c.mounts, CRASHCART_MOUNT_PATH)
  THEN {Log(c, "already_mounted", "ok", None)}
  ELSE LET s1 == sh_mkdir_p(c, CRASHCART_LOOP_DIR, "mkdir_ccloop")
           s2 == Then(s1, LAMBDA x : sh_mkdir_p(x, CRASHCART_MOUNT_PATH, "mkdir_crashcart"))
           s3 == Then(s2, sh_mount_tmpfs)
           s4 == Then(s3, LAMBDA x : sh_mknod(x, minor))
       IN  Then(s4, sh_mount_ext4)

\* if mountpoint -q <path>; then umount <path>; fi
sh_umount_if_mounted(c, path, step) ==
  IF c.st # "run" THEN {c}
  ELSE IF ~is_mounted_in(c.mounts, path) THEN {Log(c, step, "skip", None)}
  ELSE {Fail(Log(c, step, "fail", None)), Log(Detach(c, path), step, "ok", None)}

\* rm -rf <path>: succeeds when there is nothing to remove; a mountpoint
\* cannot be removed.
sh_rm_rf(c, path, step) ==
  IF c.st # "run" THEN {c}
  ELSE IF path \notin c.dirs THEN {Log(c, step, "skip", None)}
  ELSE {Fail(Log(c, step, "fail", None))}
       \cup IF is_mounted_in(c.mounts, path) THEN {}
            ELSE {Log([c EXCEPT !.dirs = @ \ {path}], step, "ok", None)}

\* unmount_script without its last command, rm -rf /dev/cc-loop.
unmount_script_keeps_loop_dir(c) ==
  LET s1 == sh_umount_if_mounted(c, CRASHCART_MOUNT_PATH, "umount_crashcart")
      s2 == Then(s1, LAMBDA x : sh_rm_rf(x, CRASHCART_MOUNT_PATH, "rm_crashcart"))
  IN  Then(s2, LAMBDA x : sh_umount_if_mounted(x, CRASHCART_LOOP_DIR, "umount_ccloop"))

unmount_script(c) ==
  LET s1 == sh_umount_if_mounted(c, CRASHCART_MOUNT_PATH, "umount_crashcart")
      s2 == Then(s1, LAMBDA x : sh_rm_rf(x, CRASHCART_MOUNT_PATH, "rm_crashcart"))
      s3 == Then(s2, LAMBDA x : sh_umount_if_mounted(x, CRASHCART_LOOP_DIR, "umount_ccloop"))
  IN  Then(s3, LAMBDA x : sh_rm_rf(x, CRASHCART_LOOP_DIR, "rm_ccloop"))

\* ------------------------------------------- orchestrator, nsenter strategy
\* cmd.output().await? : nsenter may fail to spawn.
nsenter_spawn(c) ==
  IF c.st # "run" THEN {c}
  ELSE {Fail(Log(c, "nsenter", "fail", None)), Log(c, "nsenter", "ok", None)}

\* if !output.status.success() { warn!(..) }: the call goes on.
warn_script_failed(c) ==
  IF c.st = "err" THEN Log([c EXCEPT !.st = "run"], "warn", "ok", None) ELSE c

mount_with_nsenter(c) ==
  IF verify_image(image) = "err" THEN {Fail(Log(c, "verify", "fail", None))}
  ELSE LET s1 == setup_loop_device(clone_handle(Log(c, "verify", "ok", None)))
           s2 == Then(s1, nsenter_spawn)
       IN  Then(s2, LAMBDA x : IF x.st # "run" THEN {x}
                               ELSE mount_script(x, strip_prefix_or_0(x.hs[1])))

unmount_with_nsenter(c) ==
  LET s1 == nsenter_spawn(c)
      s2 == Then(s1, LAMBDA x : IF x.st # "run" THEN {x}
                                ELSE {warn_script_failed(y) : y \in unmount_script(x)})
  IN  Then(s2, LAMBDA x : IF x.st # "run" THEN {x}
                          ELSE cleanup_loop_device(clone_handle(x)))

\* ------------------------------------------------------- namespace manager
same_namespace(a, b) == a = b

\* NamespaceManager::enter_mount_namespace: the guard is None when caller and
\* target already share the namespace, else Some(the caller's namespace).
enter_mount_namespace(c) ==
  IF c.st # "run" THEN {c}
  ELSE {Fail(Log(c, "ns_fd", "fail", None))}
       \cup IF same_namespace(c.ns, targetNs) THEN {Log(c, "setns", "skip", None)}
            ELSE {Fail(Log(c, "setns", "fail", None)),
                  Log([c EXCEPT !.ns = targetNs, !.guard = Some(c.ns)],
                      "setns", "ok", None)}

\* NamespaceGuard_drop that restores only when the guarded scope was left
\* without an error.
NamespaceGuard_drop_skips_on_error(c) ==
  IF c.guard = None THEN {c}
  ELSE IF c.st = "err" THEN {[c EXCEPT !.guard = None]}
  ELSE {Log([c EXCEPT !.guard = None], "restore_ns", "fail", None),
        Log([c EXCEPT !.ns = c.guard[1], !.guard = None], "restore_ns", "ok", None)}

\* Drop for NamespaceGuard, run however the guarded scope was left: a failed
\* setns back is only warned about.
NamespaceGuard_drop(c) ==
  IF c.guard = None THEN {c}
  ELSE {Log([c EXCEPT !.guard = None], "restore_ns", "fail", None),
        Log([c EXCEPT !.ns = c.guard[1], !.guard = None], "restore_ns", "ok", None)}

\* ----------------------------------------- orchestrator, in-process helpers
\* Result<bool> of scanning /proc/mounts: "err", "yes" or "no".
is_mounted(c, path) ==
  {"err", IF is_mounted_in(c.mounts, path) THEN "yes" ELSE "no"}

create_dir_all(c, path, step) ==
  IF c.st # "run" THEN {c}
  ELSE IF path \in c.dirs THEN {Log(c, step, "skip", None)}
  ELSE {Fail(Log(c, step, "fail", None)),
        Log([c EXCEPT !.dirs = @ \cup {path}], step, "ok", None)}

mount_tmpfs_if_needed(c) ==
  IF c.st # "run" THEN {c}
  ELSE UNION {
         IF q = "err" THEN {Fail(Log(c, "is_mounted_ccloop", "fail", None))}
         ELSE IF q = "yes" THEN {Log(c, "mount_tmpfs", "skip", None)}
         ELSE {Fail(Log(c, "mount_tmpfs", "fail", None)),
               Log([c EXCEPT !.mounts = Append(@, TmpfsEntry), !.node = None],
                   "mount_tmpfs", "ok", None)}
         : q \in is_mounted(c, CRASHCART_LOOP_DIR)}

setup_mount_directories(c) ==
  LET s1 == create_dir_all(c, CRASHCART_LOOP_DIR, "mkdir_ccloop")
      s2 == Then(s1, LAMBDA x : create_dir_all(x, CRASHCART_MOUNT_PATH, "mkdir_crashcart"))
  IN  Then(s2, mount_tmpfs_if_needed)

\* strip_prefix("/dev/loop") and parse::<u32>(): None when either fails.
parse_device_num(path) == IF path.prefix = LoopPrefix THEN Some(path.num) ELSE None

\* mknod: EEXIST is tolerated, any other error is returned.
create_device_node(c) ==
  IF c.st # "run" THEN {c}
  ELSE LET n == parse_device_num(c.hs[1])
       IN  IF n = None THEN {Fail(Log(c, "parse_device", "fail", None))}
           ELSE IF c.node # None THEN {Log(c, "mknod", "fail", n)}
           ELSE {Fail(Log(c, "mknod", "fail", n)),
                 Log([c EXCEPT !.node = Some([major |-> LoopMajor, minor |-> n[1]])],
                     "mknod", "ok", n)}

fs_types == <<"ext4", "ext3", "ext2">>

\* One mount(2) attempt per type, in order, until one succeeds.
RECURSIVE mount_loop(_, _)
mount_loop(c, i) ==
  IF i > Len(fs_types) THEN {Fail(c)}
  ELSE LET step == "mount_" \o fs_types[i]
       IN  mount_loop(Log(c, step, "fail", None), i + 1)
           \cup IF ~Mountable(c) THEN {}
                ELSE {Log([c EXCEPT !.mounts =
                                      Append(@, ImageEntry(fs_types[i], c.node[1].minor))],
                          step, "ok", Some(c.node[1].minor))}

mount_filesystem(c) ==
  IF c.st # "run" THEN {c} ELSE mount_loop(c, 1)

\* std::fs::write of /dev/crashcart/.crashcartrc: a filesystem mounted there
\* read-only refuses it (EROFS).
setup_crashcart_environment(c) ==
  IF c.st # "run" THEN {c}
  ELSE {Fail(Log(c, "write_rc", "fail", None))}
       \cup IF /\ is_mounted_in(c.mounts, CRASHCART_MOUNT_PATH)
               /\ c.mounts[TopMount(c.mounts, CRASHCART_MOUNT_PATH)].ro
            THEN {}
            ELSE {Log([c EXCEPT !.rcfile = TRUE], "write_rc", "ok", None)}

\* umount(2) of path; st is left alone, the caller decides what a failure means.
umount(c, path, step) ==
  {Log(c, step, "fail", None), Log(Detach(c, path), step, "ok", None)}

\* if Path::new(path).exists() { remove_dir_all(path) }, failure warned about.
\* The contents go first, then the directory; a mountpoint cannot be removed.
remove_dir_all_if_exists(c, path, step) ==
  IF c.st # "run" THEN {c}
  ELSE IF path \notin c.dirs THEN {Log(c, step, "skip", None)}
  ELSE IF is_mounted_in(c.mounts, path)
  THEN {Log(c, step, "fail", None),
        Log([c EXCEPT !.node = IF path = CRASHCART_LOOP_DIR THEN None ELSE @],
            step, "fail", None)}
  ELSE {Log(c, step, "fail", None),
        Log([c EXCEPT !.dirs = @ \ {path}], step, "ok", None)}

\* if self.is_mounted(LOOP_DIR).unwrap_or(false) { umount(LOOP_DIR) }
umount_ccloop_if_mounted(c) ==
  IF c.st # "run" THEN {c}
  ELSE UNION {
         IF q = "yes" THEN umount(c, CRASHCART_LOOP_DIR, "umount_ccloop")
         ELSE IF q = "err"
         THEN {Log(Log(c, "is_mounted_ccloop", "fail", None), "umount_ccloop", "skip", None)}
         ELSE {Log(c, "umount_ccloop", "skip", None)}
         : q \in is_mounted(c, CRASHCART_LOOP_DIR)}

cleanup_mount_directories(c) ==
  LET s1 == remove_dir_all_if_exists(c, CRASHCART_MOUNT_PATH, "rm_crashcart")
      s2 == Then(s1, umount_ccloop_if_mounted)
  IN  Then(s2, LAMBDA x : remove_dir_all_if_exists(x, CRASHCART_LOOP_DIR, "rm_ccloop"))

\* ---------------------------------------- orchestrator, in-process strategy
\* Lines 146..166 of mount, run under the guard.
mount_body(c) ==
  IF c.st # "run" THEN {c}
  ELSE UNION {
         IF q = "err" THEN {Fail(Log(c, "is_mounted_crashcart", "fail", None))}
         ELSE IF q = "yes" THEN {Log(c, "already_mounted", "ok", None)}
         ELSE LET s1 == setup_mount_directories(c)
                  s2 == Then(s1, create_device_node)
                  s3 == Then(s2, mount_filesystem)
              IN  Then(s3, setup_crashcart_environment)
         : q \in is_mounted(c, CRASHCART_MOUNT_PATH)}

mount(c) ==
  IF verify_image(image) = "err" THEN {Fail(Log(c, "verify", "fail", None))}
  ELSE LET s1 == setup_loop_device(clone_handle(Log(c, "verify", "ok", None)))
           s2 == Then(s1, enter_mount_namespace)
           s3 == Then(s2, mount_body)
       IN  Then(s3, NamespaceGuard_drop)

\* Lines 173..188 of unmount, run under the guard.
unmount_body(c) ==
  IF c.st # "run" THEN {c}
  ELSE LET teardown(x) ==
             Then(cleanup_mount_directories(x),
                  LAMBDA y : cleanup_loop_device(clone_handle(y)))
       IN  UNION {
             IF q = "err" THEN {Fail(Log(c, "is_mounted_crashcart", "fail", None))}
             ELSE IF q = "no" THEN teardown(Log(c, "umount_crashcart", "skip", None))
             ELSE UNION {IF Failed(u) THEN {Fail(u)} ELSE teardown(u)
                         : u \in umount(c, CRASHCART_MOUNT_PATH, "umount_crashcart")}
             : q \in is_mounted(c, CRASHCART_MOUNT_PATH)}

unmount(c) ==
  LET s1 == enter_mount_namespace(c)
      s2 == Then(s1, unmount_body)
  IN  Then(s2, NamespaceGuard_drop)

\* ------------------------------------------------------------------ actions
\* One operation returns with context c.
Commit(c, op) ==
  /\ calls < MaxCalls
  /\ calls' = calls + 1
  /\ loops' = c.loops
  /\ mounts' = c.mounts
  /\ dirs' = c.dirs
  /\ node' = c.node
  /\ rcfile' = c.rcfile
  /\ callerNs' = c.ns
  /\ lastOp' = op
  /\ result' = Res(c)
  /\ trace' = c.trace
  /\ slot' = IF c.cloned THEN slot ELSE c.hs
  /\ cloneSlot' = IF c.cloned THEN c.hs ELSE None
  /\ cleanBefore' = Clean
  /\ prev' = [op |-> lastOp, result |-> result, clean |-> cleanBefore]
  /\ UNCHANGED <<image, targetNs, racers>>

\* A host with every loop device free, a clean target, a fresh handle.
Fresh ==
  /\ loops = [d \in Dev |-> "free"]
  /\ slot = None
  /\ mounts = <<>>
  /\ dirs = {}
  /\ node = None
  /\ rcfile = FALSE
  /\ callerNs = "host"
  /\ lastOp = "new"
  /\ result = "ok"
  /\ trace = <<>>
  /\ cloneSlot = None
  /\ cleanBefore = TRUE
  /\ prev = [op |-> "new", result |-> "ok", clean |-> TRUE]
  /\ calls = 0

\* A caller of the library: handle constructed, no process of its own.
Init ==
  /\ image \in Images
  /\ targetNs \in {"host", "container"}
  /\ Fresh
  /\ racers = <<>>
  /\ proc = [pc |-> "library"]

\* image_manager.setup_loop_device() on the caller's own handle
Bind ==
  \E r \in setup_loop_device(Ctx) :
    Commit(r, "setup_loop_device") /\ UNCHANGED proc

\* image_manager.cleanup_loop_device() on the caller's own handle
Release ==
  \E r \in cleanup_loop_device(Ctx) :
    Commit(r, "cleanup_loop_device") /\ UNCHANGED proc

MountWithNsenter ==
  \E r \in mount_with_nsenter(Ctx) :
    Commit(r, "mount_with_nsenter") /\ UNCHANGED proc

UnmountWithNsenter ==
  \E r \in unmount_with_nsenter(Ctx) :
    Commit(r, "unmount_with_nsenter") /\ UNCHANGED proc

Mount == \E r \in mount(Ctx) : Commit(r, "mount") /\ UNCHANGED proc

Unmount == \E r \in unmount(Ctx) : Commit(r, "unmount") /\ UNCHANGED proc

Next ==
  \/ Bind
  \/ Release
  \/ MountWithNsenter
  \/ UnmountWithNsenter
  \/ Mount
  \/ Unmount

Spec == Init /\ [][Next]_vars

\* -------------------------------------------------- concurrent invocations
\* Invocations running mount_with_nsenter at the same time, each against its
\* own pid in its own mount namespace, all on the one host loop pool.  Each
\* subprocess is one step; racers[i].c is invocation i's context, whose loops
\* field is the pool as it was at i's last step.
MaxInv == 2

Invocations == 1 .. MaxInv

\* The outcomes in which the step did not fail, when there is one: a step
\* fails here only when the state it finds leaves it no other outcome.
Undisturbed(S) ==
  IF \E r \in S : ~Failed(r) THEN {r \in S : ~Failed(r)} ELSE S

\* Invocation i's context, looking at the pool as it is now.
OnHost(i) == [racers[i].c EXCEPT !.loops = loops]

ScriptOrder ==
  <<"mkdir_ccloop", "mkdir_crashcart", "mount_tmpfs", "mknod", "mount_ext4">>

\* The command of mount_script the invocation is at.
script_step(c, pc) ==
  CASE pc = "mkdir_ccloop" -> sh_mkdir_p(c, CRASHCART_LOOP_DIR, "mkdir_ccloop")
    [] pc = "mkdir_crashcart" -> sh_mkdir_p(c, CRASHCART_MOUNT_PATH, "mkdir_crashcart")
    [] pc = "mount_tmpfs" -> sh_mount_tmpfs(c)
    [] pc = "mknod" -> sh_mknod(c, strip_prefix_or_0(c.hs[1]))
    [] pc = "mount_ext4" -> sh_mount_ext4(c)

AfterScriptStep(pc) ==
  IF pc = ScriptOrder[Len(ScriptOrder)] THEN "done"
  ELSE ScriptOrder[1 + CHOOSE k \in 1 .. Len(ScriptOrder) : ScriptOrder[k] = pc]

\* Invocation i has taken a step that left it in context r.
Advance(i, r, pc) ==
  /\ racers' = [racers EXCEPT ![i] = [pc |-> IF r.st = "err" THEN "done" ELSE pc,
                                      c |-> r]]
  /\ loops' = r.loops
  /\ UNCHANGED <<image, targetNs, slot, mounts, dirs, node, rcfile, callerNs,
                 lastOp, result, trace, cloneSlot, cleanBefore, prev, calls, proc>>

RaceInit ==
  /\ image \in Images
  /\ targetNs = "container"
  /\ Fresh
  /\ racers = [i \in Invocations |-> [pc |-> "verify", c |-> Ctx]]
  /\ proc = [pc |-> "library"]

\* verify_image and the duplicate of the handle
RaceVerify(i) ==
  /\ racers[i].pc = "verify"
  /\ IF verify_image(image) = "err"
     THEN Advance(i, Fail(Log(OnHost(i), "verify", "fail", None)), "done")
     ELSE Advance(i, clone_handle(Log(OnHost(i), "verify", "ok", None)), "losetup_f")

\* losetup -f
RaceFind(i) ==
  /\ racers[i].pc = "losetup_f"
  /\ \E r \in Undisturbed(get_free_loop_device(OnHost(i))) :
       Advance(i, r, "losetup_assoc")

\* losetup <device> <image>, then the device is recorded in the slot
RaceBind(i) ==
  /\ racers[i].pc = "losetup_assoc"
  /\ \E r \in Undisturbed(associate_loop_device(OnHost(i), racers[i].c.found[1])) :
       Advance(i, IF r.st = "err" THEN r ELSE [r EXCEPT !.hs = r.found], "nsenter")

\* nsenter starts bash; the script's first test is for /dev/crashcart
RaceSpawn(i) ==
  /\ racers[i].pc = "nsenter"
  /\ \E r \in Undisturbed(nsenter_spawn(OnHost(i))) :
       IF r.st = "run" /\ is_mounted_in(r.mounts, CRASHCART_MOUNT_PATH)
       THEN Advance(i, Log(r, "already_mounted", "ok", None), "done")
       ELSE Advance(i, r, ScriptOrder[1])

\* one command of the script, in the invocation's own target
RaceScript(i) ==
  /\ \E k \in 1 .. Len(ScriptOrder) : racers[i].pc = ScriptOrder[k]
  /\ \E r \in Undisturbed(script_step(OnHost(i), racers[i].pc)) :
       Advance(i, r, AfterScriptStep(racers[i].pc))

RaceNext ==
  \E i \in Invocations :
    \/ RaceVerify(i)
    \/ RaceFind(i)
    \/ RaceBind(i)
    \/ RaceSpawn(i)
    \/ RaceScript(i)

SpecRace == RaceInit /\ [][RaceNext]_vars

\* ------------------------------------------------------- target resolution
\* A target string is a sequence of characters; a parsed number is kept as
\* its decimal digits without leading zeros.
MaxTargetLen == 2

Alphabet == {"0", "7", "a", "+"}

DigitSeq == <<"0", "1", "2", "3", "4", "5", "6", "7", "8", "9">>

DigitChars == {DigitSeq[k] : k \in 1 .. Len(DigitSeq)}

DigitVal(ch) == CHOOSE v \in 0 .. 9 : DigitSeq[v + 1] = ch

\* u32::MAX = 4294967295 and u32::MAX + 1
U32MaxDigits == <<"4", "2", "9", "4", "9", "6", "7", "2", "9", "5">>

U32OverDigits == <<"4", "2", "9", "4", "9", "6", "7", "2", "9", "6">>

RECURSIVE Strings(_)
Strings(n) ==
  IF n = 0 THEN {<<>>}
  ELSE LET S == Strings(n - 1)
       IN  S \cup {Append(x, ch) : x \in {y \in S : Len(y) = n - 1}, ch \in Alphabet}

Targets == Strings(MaxTargetLen) \cup {U32MaxDigits, U32OverDigits}

RECURSIVE Canonical(_)
Canonical(ds) ==
  IF Len(ds) > 1 /\ ds[1] = "0" THEN Canonical(Tail(ds)) ELSE ds

\* a > b for numbers given by their canonical digits
Exceeds(a, b) ==
  \/ Len(a) > Len(b)
  \/ /\ Len(a) = Len(b)
     /\ \E i \in 1 .. Len(a) :
          /\ DigitVal(a[i]) > DigitVal(b[i])
          /\ \A j \in 1 .. (i - 1) : a[j] = b[j]

\* str::parse::<u32>(): an optional "+", then one or more decimal digits, the
\* value at most u32::MAX; anything else is an error (None).
parse_u32(t) ==
  LET body == IF Len(t) > 0 /\ t[1] = "+" THEN Tail(t) ELSE t
  IN  IF body = <<>> \/ \E i \in 1 .. Len(body) : body[i] \notin DigitChars THEN None
      ELSE IF Exceeds(Canonical(body), U32MaxDigits) THEN None
      ELSE Some(Canonical(body))

\* How a probe subprocess ends: exit status zero, non-zero, or no such binary.
ProbeOutcomes == {"zero", "nonzero", "absent"}

\* try_engine taking any completed subprocess for a match.
try_engine_ignores_status(d, binary, kind, id) ==
  IF d.runtime # None THEN {d}
  ELSE {[d EXCEPT !.probes = Append(@, [binary |-> binary, out |-> o]),
                  !.runtime = IF o # "absent"
                              THEN Some([kind |-> kind, id |-> id, pid |-> None])
                              ELSE None]
        : o \in ProbeOutcomes}

\* try_docker / try_podman / try_containerd: Ok only for exit status zero; a
\* detection that already has its runtime probes no further.
try_engine(d, binary, kind, id) ==
  IF d.runtime # None THEN {d}
  ELSE {[d EXCEPT !.probes = Append(@, [binary |-> binary, out |-> o]),
                  !.runtime = IF o = "zero"
                              THEN Some([kind |-> kind, id |-> id, pid |-> None])
                              ELSE None]
        : o \in ProbeOutcomes}

try_docker(d, id) == try_engine(d, "docker", "Docker", id)

try_podman(d, id) == try_engine(d, "podman", "Podman", id)

try_containerd(d, id) == try_engine(d, "ctr", "Containerd", id)

NotFoundPrefix == "Could not find container or process with ID: "

\* The same error without the target.
NotFoundMessage_without_target(target) == <<NotFoundPrefix>>

\* anyhow!("Could not find container or process with ID: {}", target)
NotFoundMessage(target) == <<NotFoundPrefix>> \o target

detect(target) ==
  LET d0 == [probes |-> <<>>, runtime |-> None, error |-> None]
      n == parse_u32(target)
  IN  IF n # None
      THEN {[d0 EXCEPT !.runtime = Some([kind |-> "Pid", id |-> None, pid |-> n])]}
      ELSE LET s1 == try_docker(d0, target)
               s2 == Then(s1, LAMBDA d : try_podman(d, target))
               s3 == Then(s2, LAMBDA d : try_containerd(d, target))
           IN  {IF d.runtime = None
                THEN [d EXCEPT !.error = Some(NotFoundMessage(target))]
                ELSE d : d \in s3}

\* What an engine may report as the container's pid.
EnginePids == {<<"0">>, <<"4", "2">>}

\* get_pid: the pid itself for a Pid handle; else the engine is asked, which
\* may fail or print any pid.
get_pid(runtime) ==
  IF runtime.kind = "Pid" THEN {runtime.pid}
  ELSE {None} \cup {Some(n) : n \in EnginePids}

\* ImageManager::new that validates the size as well.
ImageManager_new_checks_size(exists, img) ==
  IF ~exists \/ img.len < MinImageLen THEN None
  ELSE Some([image |-> img, loop_device |-> None])

\* ------------------------------------------------------ command-line process
\* ImageManager::new: Err (None) unless the path exists; content is not looked at.
ImageManager_new(exists, img) ==
  IF ~exists THEN None ELSE Some([image |-> img, loop_device |-> None])

\* ExitStatus::code() of the executed command: None when a signal ended it.
ChildCodes == {Some(0), Some(3), None}

\* A signalled child reported as exit code 0.
unwrap_or_zero(code) == IF code = None THEN 0 ELSE code[1]

\* status.code().unwrap_or(-1)
unwrap_or_minus1(code) == IF code = None THEN -1 ELSE code[1]

\* A string is the sequence of its pieces: a literal is one piece, the decimal
\* form of a pid is its digits, an id is its characters.
Str(s) == <<s>>

MaxCmdLen == 2

Words == {"ls", "-l"}

\* cli.command: the trailing arguments, possibly none.
Commands == UNION {[1 .. n -> Words] : n \in 0 .. MaxCmdLen}

LdLinux == Str("/dev/crashcart/lib64/ld-linux-x86-64.so.2")

LibraryPath ==
  Str("/dev/crashcart/lib:/dev/crashcart/lib64:/dev/crashcart/usr/lib:/dev/crashcart/usr/lib64")

RcFilePath == Str("/dev/crashcart/.crashcartrc")

\* command.iter().cloned() / command.to_vec()
Cloned(command) == [i \in 1 .. Len(command) |-> Str(command[i])]

\* The subprocess a dispatcher ran: its program and argv, the variable added
\* to its environment, whether it could be spawned, ExitStatus::code() of the
\* child (None when a signal ended it) and the Result returned (None is Err).
Ran(program, argv, env, spawned, code, ret) ==
  [program |-> program, argv |-> argv, env |-> env, spawned |-> spawned,
   child |-> code, ret |-> ret]

\* .status().await.context(..)? ; Ok(status.code().unwrap_or(-1))
status_of(program, argv, env) ==
  {Ran(program, argv, env, FALSE, None, None)}
  \cup {Ran(program, argv, env, TRUE, k, Some(unwrap_or_minus1(k))) : k \in ChildCodes}

\* The pid of this process, as format!("crashcart-{}", std::process::id()) prints it.
OwnPid == <<"9">>

\* runtime.exec_command: Err for a raw pid or when the engine cannot be
\* spawned, else the exit code.
exec_command(runtime, command) ==
  LET cmd == IF command = <<>>
             THEN <<Str("/dev/crashcart/bin/bash"), Str("--rcfile"), RcFilePath,
                    Str("-i")>>
             ELSE Cloned(command)
      id == runtime.id[1]
  IN  CASE runtime.kind = "Docker" ->
             status_of("docker", <<Str("exec"), Str("-it"), id>> \o cmd, None)
        [] runtime.kind = "Podman" ->
             status_of("podman", <<Str("exec"), Str("-it"), id>> \o cmd, None)
        [] runtime.kind = "Containerd" ->
             status_of("ctr", <<Str("task"), Str("exec"), Str("--exec-id"),
                                Str("crashcart-") \o OwnPid, id>> \o cmd, None)
        [] OTHER -> {Ran("none", <<>>, None, FALSE, None, None)}

\* namespace::exec_in_namespace: Err when nsenter cannot be spawned.
exec_in_namespace(pid, command, env_var) ==
  LET cmd == IF command = <<>>
             THEN <<LdLinux, Str("--library-path"), LibraryPath,
                    Str("/dev/crashcart/usr/bin/bash"), Str("--rcfile"),
                    RcFilePath, Str("-i")>>
             ELSE <<LdLinux, Str("--library-path"), LibraryPath>> \o Cloned(command)
      args == <<Str("-t"), pid, Str("-m"), Str("-u"), Str("-i"), Str("-n"),
                Str("-p"), Str("--")>>
  IN  status_of("nsenter", args \o cmd, env_var)

\* The status the parent sees: the low eight bits of the value given to exit.
ExitStatusOf(code) == code % 256

hostVars == <<image, targetNs, loops, slot, mounts, dirs, node, rcfile, callerNs,
              lastOp, result, trace, cloneSlot, cleanBefore, prev, calls>>

\* main at its first statement after argument parsing.
Start(t, mo, um, ex, ie, cmd) ==
  [pc |-> "detect", target |-> t, mount_only |-> mo,
   unmount |-> um, exec |-> ex, image_exists |-> ie, command |-> cmd,
   probes |-> <<>>, runtime |-> None, error |-> None, pid |-> None,
   log |-> <<>>, ran |-> None, code |-> None, status |-> None]

Did(p, op, res) == [p EXCEPT !.log = Append(@, [op |-> op, result |-> res])]

\* main returns Err: the runtime prints the error and exits with status 1.
ReturnErr(p) == [p EXCEPT !.pc = "exit", !.status = Some(1)]

\* main returns Ok(()) or calls std::process::exit(code).
Exit(p, code) == [p EXCEPT !.pc = "exit", !.status = Some(ExitStatusOf(code))]

MainTargets == {<<"7">>, <<"a">>}

MainInit ==
  /\ image \in Images
  /\ targetNs = "container"
  /\ Fresh
  /\ racers = <<>>
  /\ \E t \in MainTargets, mo \in BOOLEAN, um \in BOOLEAN, ex \in BOOLEAN,
        ie \in BOOLEAN, cmd \in Commands :
       proc = Start(t, mo, um, ex, ie, cmd)

\* let runtime = ContainerRuntime::detect(&cli.target).await?;
MainDetect ==
  /\ proc.pc = "detect"
  /\ \E d \in detect(proc.target) :
       LET p == [proc EXCEPT !.probes = d.probes, !.runtime = d.runtime,
                             !.error = d.error]
       IN  proc' = IF d.runtime = None THEN ReturnErr(Did(p, "detect", "err"))
                   ELSE [Did(p, "detect", "ok") EXCEPT !.pc = "get_pid"]
  /\ UNCHANGED <<hostVars, racers>>

\* let pid = runtime.get_pid().await?;
MainGetPid ==
  /\ proc.pc = "get_pid"
  /\ \E g \in get_pid(proc.runtime[1]) :
       proc' = IF g = None THEN ReturnErr(Did(proc, "get_pid", "err"))
               ELSE [Did(proc, "get_pid", "ok") EXCEPT !.pid = g, !.pc = "new"]
  /\ UNCHANGED <<hostVars, racers>>

\* let image_manager = ImageManager::new(&cli.image)?;
MainNew ==
  /\ proc.pc = "new"
  /\ LET h == ImageManager_new(proc.image_exists, image)
     IN  /\ proc' = IF h = None THEN ReturnErr(Did(proc, "new", "err"))
                    ELSE [Did(proc, "new", "ok") EXCEPT
                            !.pc = IF proc.unmount THEN "unmount_only" ELSE "mount"]
         /\ slot' = IF h = None THEN slot ELSE h[1].loop_device
  /\ UNCHANGED <<image, targetNs, loops, mounts, dirs, node, rcfile, callerNs,
                 lastOp, result, trace, cloneSlot, cleanBefore, prev, calls, racers>>

\* if cli.unmount { unmount_with_nsenter(..)?; return Ok(()) }
MainUnmountOnly ==
  /\ proc.pc = "unmount_only"
  /\ \E r \in unmount_with_nsenter(Ctx) :
       /\ Commit(r, "unmount_with_nsenter")
       /\ proc' = IF r.st = "err" THEN ReturnErr(Did(proc, "unmount", "err"))
                  ELSE Exit(Did(proc, "unmount", "ok"), 0)

\* mount_with_nsenter(..)?; if cli.mount_only { return Ok(()) }
MainMount ==
  /\ proc.pc = "mount"
  /\ \E r \in mount_with_nsenter(Ctx) :
       /\ Commit(r, "mount_with_nsenter")
       /\ proc' = IF r.st = "err" THEN ReturnErr(Did(proc, "mount", "err"))
                  ELSE IF proc.mount_only THEN Exit(Did(proc, "mount", "ok"), 0)
                  ELSE [Did(proc, "mount", "ok") EXCEPT !.pc = "exec"]

\* let exit_code = if cli.exec { exec_command(..)? } else { exec_in_namespace(..)? };
MainExec ==
  /\ proc.pc = "exec"
  /\ \E e \in IF proc.exec THEN exec_command(proc.runtime[1], proc.command)
              ELSE exec_in_namespace(proc.pid[1], proc.command,
                                     Some(<<Str("CRASHCART_TARGET_PID"), proc.pid[1]>>)) :
       LET p == [proc EXCEPT !.ran = Some(e)]
       IN  proc' = IF e.ret = None THEN ReturnErr(Did(p, "exec", "err"))
                   ELSE [Did(p, "exec", "ok") EXCEPT !.code = e.ret, !.pc = "cleanup"]
  /\ UNCHANGED <<hostVars, racers>>

\* if !cli.mount_only { unmount_with_nsenter(..)? }; std::process::exit(exit_code)
MainCleanup ==
  /\ proc.pc = "cleanup"
  /\ \E r \in unmount_with_nsenter(Ctx) :
       /\ Commit(r, "unmount_with_nsenter")
       /\ proc' = IF r.st = "err" THEN ReturnErr(Did(proc, "unmount", "err"))
                  ELSE Exit(Did(proc, "unmount", "ok"), proc.code[1])

MainNext ==
  \/ MainDetect
  \/ MainGetPid
  \/ MainNew
  \/ MainUnmountOnly
  \/ MainMount
  \/ MainExec
  \/ MainCleanup

SpecMain == MainInit /\ [][MainNext]_vars

\* Resolution alone, over every target string.
ResolveInit ==
  /\ image \in {img \in Images : img.magic}
  /\ targetNs = "container"
  /\ Fresh
  /\ racers = <<>>
  /\ \E t \in Targets : proc = Start(t, FALSE, FALSE, FALSE, TRUE, <<>>)

ResolveNext ==
  \/ MainDetect
  \/ MainGetPid

SpecResolve == ResolveInit /\ [][ResolveNext]_vars

\* ------------------------------------------------- entry into all namespaces
NsTypes == {"mnt", "uts", "ipc", "net", "pid", "cgroup", "user"}

\* let namespaces = ["mnt", "uts", "ipc", "net", "pid", "cgroup"];
namespaces == <<"mnt", "uts", "ipc", "net", "pid", "cgroup">>

\* let clone_flag = match ns_type { .. }
clone_flag(ns_type) ==
  CASE ns_type = "mnt" -> "CLONE_NEWNS"
    [] ns_type = "uts" -> "CLONE_NEWUTS"
    [] ns_type = "ipc" -> "CLONE_NEWIPC"
    [] ns_type = "net" -> "CLONE_NEWNET"
    [] ns_type = "pid" -> "CLONE_NEWPID"
    [] ns_type = "cgroup" -> "CLONE_NEWCGROUP"
    [] ns_type = "user" -> "CLONE_NEWUSER"

\* A descriptor opened on /proc/<pid>/ns/<ns_type>.
NsFd(ns_type, ns) == [type |-> ns_type, ns |-> ns]

\* setns(fd, flag) by the process p: EINVAL when the flag is not the one of
\* the descriptor's namespace type; with the right flag the kernel attaches
\* the caller or rejects the call (permissions, threads).
setns(p, fd, flag) ==
  IF flag # clone_flag(fd.type) THEN {[ok |-> FALSE, p |-> p]}
  ELSE {[ok |-> FALSE, p |-> p],
        [ok |-> TRUE, p |-> [p EXCEPT !.attached[fd.type] = fd.ns]]}

\* enter_single_namespace: Err, Ok(guard holding nothing) when caller and
\* target already share the namespace, or Ok(guard holding the caller's
\* descriptor) after setns with the type's flag.
enter_single_namespace(p, ns_type) ==
  LET current_fd == NsFd(ns_type, p.attached[ns_type])
      target_fd == NsFd(ns_type, p.target[ns_type])
  IN  {[res |-> "err", guard |-> None, p |-> p]}
      \cup IF current_fd.ns = target_fd.ns
           THEN {[res |-> "ok", guard |-> None, p |-> p]}
           ELSE {IF r.ok THEN [res |-> "ok", guard |-> Some(current_fd), p |-> r.p]
                 ELSE [res |-> "err", guard |-> None, p |-> p] :
                 r \in setns(p, target_fd, clone_flag(ns_type))}

\* The loop of enter_all_namespaces from the k-th type on: an Err pushes a
\* guard holding nothing.
RECURSIVE enter_from(_, _)
enter_from(p, k) ==
  IF k > Len(namespaces) THEN {p}
  ELSE UNION {enter_from([e.p EXCEPT
                            !.guards = Append(@, e.guard),
                            !.entered = Append(@, [type |-> namespaces[k],
                                                   held |-> e.guard # None])],
                         k + 1) :
              e \in enter_single_namespace(p, namespaces[k])}

enter_all_namespaces(p) == enter_from(p, 1)

\* Drop for NamespaceGuard on a guard of enter_all_namespaces: setns back
\* with CLONE_NEWNS whatever the type, a failure is only warned about.
drop_guard(p, guard) ==
  IF guard = None THEN {p}
  ELSE {[r.p EXCEPT !.restores = Append(@, [type |-> guard[1].type,
                                            flag |-> "CLONE_NEWNS",
                                            ok |-> r.ok])] :
        r \in setns(p, guard[1], "CLONE_NEWNS")}

\* The Vec<NamespaceGuard> going out of scope: its elements are dropped in order.
RECURSIVE drop_from(_, _)
drop_from(p, k) ==
  IF k > Len(p.guards) THEN {[p EXCEPT !.guards = <<>>]}
  ELSE UNION {drop_from(q, k + 1) : q \in drop_guard(p, p.guards[k])}

\* A caller of enter_all_namespaces before the call.
NsStart(tgt) ==
  [pc |-> "enter_all",
   original |-> [t \in NsTypes |-> "host"],
   attached |-> [t \in NsTypes |-> "host"],
   target |-> tgt, guards |-> <<>>, entered |-> <<>>, restores |-> <<>>]

NsInit ==
  /\ image \in {img \in Images : img.magic}
  /\ targetNs = "container"
  /\ Fresh
  /\ racers = <<>>
  /\ \E tgt \in [NsTypes -> {"host", "container"}] : proc = NsStart(tgt)

\* let guards = enter_all_namespaces(pid)?;
NsEnterAll ==
  /\ proc.pc = "enter_all"
  /\ \E q \in enter_all_namespaces(proc) : proc' = [q EXCEPT !.pc = "entered"]
  /\ UNCHANGED <<hostVars, racers>>

\* drop(guards)
NsDropGuards ==
  /\ proc.pc = "entered"
  /\ \E q \in drop_from(proc, 1) : proc' = [q EXCEPT !.pc = "released"]
  /\ UNCHANGED <<hostVars, racers>>

NsNext ==
  \/ NsEnterAll
  \/ NsDropGuards

SpecNs == NsInit /\ [][NsNext]_vars

\* ------------------------------------------------------------ properties
MountOps == {"mount_with_nsenter", "mount"}
UnmountOps == {"unmount_with_nsenter", "unmount"}

\* Host loop devices bound to the image.
BoundToImage == {d \in Dev : loops[d] = "image"}

CountAt(m, path) == Cardinality({i \in 1 .. Len(m) : m[i].mp = path})

NoFailedStep(tr) == \A i \in 1 .. Len(tr) : tr[i].out # "fail"

TeardownSteps ==
  <<"umount_crashcart", "rm_crashcart", "umount_ccloop", "rm_ccloop", "losetup_d">>

IsTeardown(e) == \E k \in 1 .. Len(TeardownSteps) : e.step = TeardownSteps[k]

TeardownOf(tr) ==
  LET sel == SelectSeq(tr, IsTeardown)
  IN  [i \in 1 .. Len(sel) |-> sel[i].step]

\* C1: mount_with_nsenter called twice in a row on the same handle, the first
\* call having mounted /dev/crashcart, binds no further loop device: the set
\* of devices bound to the image is the same after the second call.
C1_SecondMountBindsNothing ==
  [][(/\ lastOp = "mount_with_nsenter" /\ result = "ok" /\ Injected
      /\ lastOp' = "mount_with_nsenter")
     => BoundToImage' = BoundToImage]_vars

\* C2: after a successful mount_with_nsenter followed by unmount_with_nsenter
\* on the same handle, the loop device that mount reserved is no longer bound.
C2_UnmountReleasesReserved ==
  [][(/\ lastOp = "mount_with_nsenter" /\ result = "ok" /\ cloneSlot # None
      /\ lastOp' = "unmount_with_nsenter")
     => loops'[cloneSlot[1].num] # "image"]_vars

\* C3: when a mount call bound a loop device and then returned an error, that
\* device has been released by the time the call returns.
C3_FailedMountRollsBack ==
  (lastOp \in MountOps /\ result = "err")
  => \A i \in 1 .. Len(trace) :
       (trace[i].step = "losetup_assoc" /\ trace[i].out = "ok")
       => loops[trace[i].dev[1]] = "free"

\* C4: the caller's handle records a loop device exactly when a binding made
\* for the image is live on the host, the recorded device is that binding,
\* and a successful release leaves the slot empty.
C4_SlotIffLive ==
  /\ (slot # None) <=> (BoundToImage # {})
  /\ slot # None => slot[1].num \in BoundToImage
  /\ (lastOp = "cleanup_loop_device" /\ result = "ok") => slot = None

\* C5: a mount call made while /dev/crashcart is already a mountpoint returns
\* success and leaves the mount table as it was, with exactly one mount at
\* /dev/crashcart and at most one tmpfs at /dev/cc-loop.
C5_MountWhenInjectedIsNoOp ==
  [][(Injected /\ lastOp' \in MountOps)
     => /\ result' = "ok"
        /\ mounts' = mounts
        /\ CountAt(mounts', CRASHCART_MOUNT_PATH) = 1
        /\ CountAt(mounts', CRASHCART_LOOP_DIR) <= 1]_vars

C7_FailedMountLeavesClean ==
  [][(Clean /\ lastOp' \in MountOps)
     => /\ result' = "err" =>
             /\ ~is_mounted_in(mounts', CRASHCART_MOUNT_PATH)
             /\ ~is_mounted_in(mounts', CRASHCART_LOOP_DIR)
        /\ result' = "ok" <=> is_mounted_in(mounts', CRASHCART_MOUNT_PATH)]_vars

\* C8: in an unmount, when one of the first four teardown steps fails, all
\* five steps are still performed, in the order umount /dev/crashcart, remove
\* it, umount /dev/cc-loop, remove it, release the loop device.
C8_TeardownBestEffort ==
  (/\ lastOp \in UnmountOps
   /\ \E i \in 1 .. Len(trace) :
        /\ trace[i].out = "fail"
        /\ \E k \in 1 .. 4 : trace[i].step = TeardownSteps[k])
  => TeardownOf(trace) = TeardownSteps

\* C9: every unmount reaches the loop-device release, whatever failed before,
\* and no teardown step follows the release.
C9_ReleaseAlwaysLast ==
  lastOp \in UnmountOps
  => \E i \in 1 .. Len(trace) :
       /\ trace[i].step = "losetup_d"
       /\ \A j \in (i + 1) .. Len(trace) : ~IsTeardown(trace[j])

\* C10: whenever losetup -d is run, no namespace guard of the orchestrator
\* is active and the caller is attached to the host mount namespace.
C10_ReleaseOutsideGuard ==
  \A i \in 1 .. Len(trace) :
    (trace[i].step = "losetup_d" /\ trace[i].out # "skip")
    => (~trace[i].guarded /\ trace[i].ns = "host")

InProcessOps == {"mount", "unmount"}

HasStep(tr, step, out) == \E i \in 1 .. Len(tr) : tr[i].step = step /\ tr[i].out = out

C12_StrategiesAgree ==
  [][lastOp' = "mount"
     => \E r \in mount_with_nsenter(Ctx) :
          /\ Res(r) = result'
          /\ r.mounts = mounts'
          /\ r.node = node'
          /\ r.rcfile = rcfile'
          /\ r.loops = loops']_vars

\* C13: when concurrent invocations against distinct pids have all returned,
\* whatever the interleaving of their steps, every mount succeeded and no two
\* of them hold the same loop device.
C13_ConcurrentMountsSucceed ==
  (/\ image.magic /\ verify_image(image) = "ok"
   /\ \A i \in DOMAIN racers : racers[i].pc = "done")
  => /\ \A i \in DOMAIN racers : Res(racers[i].c) = "ok"
     /\ \A i, j \in DOMAIN racers : i # j => racers[i].c.hs # racers[j].c.hs

\* The process has a position of its own (it is not a library caller).
Exited == proc.pc = "exit"

DidOp(op, res) ==
  \E k \in 1 .. Len(proc.log) : proc.log[k] = [op |-> op, result |-> res]

\* C14: in an invocation with neither --mount-only nor --unmount, a mount
\* that succeeded is followed by an unmount before the process exits,
\* whether the exec step returned an exit code or failed.
C14_MountPairedWithUnmount ==
  (Exited /\ ~proc.mount_only /\ ~proc.unmount)
  => \A k \in 1 .. Len(proc.log) :
       proc.log[k] = [op |-> "mount", result |-> "ok"]
       => \E j \in (k + 1) .. Len(proc.log) : proc.log[j].op = "unmount"

\* C15: when mount and the executed command have completed, the exit status
\* of the process is the command's exit code, whatever happened in teardown.
C15_ExitStatusIsCommandCode ==
  (Exited /\ DidOp("mount", "ok") /\ DidOp("exec", "ok"))
  => proc.status = Some(ExitStatusOf(proc.code[1]))

Resolved == proc.pc \notin {"library", "detect"}

ProbeOrder == <<"docker", "podman", "ctr">>

KindOf(binary) ==
  CASE binary = "docker" -> "Docker"
    [] binary = "podman" -> "Podman"
    [] binary = "ctr" -> "Containerd"

\* s occurs in m as a run of consecutive elements.
Contains(m, s) ==
  \E k \in 0 .. (Len(m) - Len(s)) : \A i \in 1 .. Len(s) : m[k + i] = s[i]

\* C16: detect resolves in a fixed order, first match wins.  A target that
\* parses as a PID yields Pid(n), n the parsed value, and no probe runs.
\* Otherwise the probes run are docker, podman, ctr in that order, only the
\* last of them can have exited zero, and the handle returned is that of the
\* probe that exited zero, with the target as its id.
C16_DetectOrder ==
  Resolved =>
    LET n == parse_u32(proc.target)
        ps == proc.probes
    IN  IF n # None
        THEN /\ ps = <<>>
             /\ proc.runtime = Some([kind |-> "Pid", id |-> None, pid |-> n])
             /\ proc.target = <<"0", "7">> => n = Some(<<"7">>)
             /\ proc.target \notin {<<>>, <<"+">>, <<"7", "a">>, U32OverDigits}
        ELSE /\ Len(ps) \in 1 .. Len(ProbeOrder)
             /\ \A k \in 1 .. Len(ps) : ps[k].binary = ProbeOrder[k]
             /\ \A k \in 1 .. (Len(ps) - 1) : ps[k].out # "zero"
             /\ proc.runtime # None =>
                  /\ ps[Len(ps)].out = "zero"
                  /\ proc.runtime[1] = [kind |-> KindOf(ps[Len(ps)].binary),
                                        id |-> proc.target, pid |-> None]
             /\ ps[Len(ps)].out = "zero" => proc.runtime # None
             /\ proc.target \notin {<<"+", "7">>, <<"0", "0">>, U32MaxDigits}

\* C16 witness: docker is absent, podman exits zero, ctr is never run.
C16_Witness ==
  /\ Resolved
  /\ proc.probes = <<[binary |-> "docker", out |-> "absent"],
                     [binary |-> "podman", out |-> "zero"]>>
  /\ proc.runtime # None
  /\ proc.runtime[1].kind = "Podman"

\* C17: for a target that does not parse as a PID, when every probe is
\* negative (non-zero exit or absent binary), all three probes have run and
\* detect returns the not-found error, whose message contains the target.
C17_AllNegativeIsNotFound ==
  (/\ Resolved
   /\ parse_u32(proc.target) = None
   /\ \A k \in 1 .. Len(proc.probes) : proc.probes[k].out # "zero")
  => /\ Len(proc.probes) = Len(ProbeOrder)
     /\ Exited
     /\ proc.log = <<[op |-> "detect", result |-> "err"]>>
     /\ proc.error # None
     /\ Contains(proc.error[1], proc.target)

\* C17 witness: docker and ctr are absent, podman exits non-zero, and the
\* error names the two-character target.
C17_Witness ==
  /\ Exited
  /\ Len(proc.target) = 2
  /\ proc.probes = <<[binary |-> "docker", out |-> "absent"],
                     [binary |-> "podman", out |-> "nonzero"],
                     [binary |-> "ctr", out |-> "absent"]>>
  /\ proc.error = Some(<<NotFoundPrefix>> \o proc.target)

\* C18: constructing the image handle fails exactly when the image path does
\* not exist, whatever the size and content of an existing file, and a newly
\* constructed handle has an empty loop-device slot.
C18_NewFailsIffAbsent ==
  /\ DidOp("new", "err") <=> (proc.pc = "exit" /\ DidOp("get_pid", "ok")
                               /\ ~proc.image_exists)
  /\ DidOp("new", "ok") <=> (DidOp("get_pid", "ok") /\ proc.pc # "new"
                              /\ proc.image_exists)
  /\ proc.pc \in {"mount", "unmount_only"} => slot = None

\* C18 witness: a handle was constructed for an existing file of 512 bytes.
C18_Witness ==
  /\ proc.pc \in {"mount", "unmount_only"}
  /\ DidOp("new", "ok")
  /\ image.len < MinImageLen
  /\ slot = None

VerifyStep(tr, out) == Len(tr) > 0 /\ tr[1].step = "verify" /\ tr[1].out = out

\* C19: a mount's verification fails exactly when the image is shorter than
\* 1024 bytes, with or without the ext magic at offset 1080, and a mount
\* whose verification failed has run no losetup and bound no loop device.
C19_VerifyFailsIffShort ==
  [][lastOp' \in MountOps
     => /\ VerifyStep(trace', "fail") <=> image.len < MinImageLen
        /\ VerifyStep(trace', "ok") <=> image.len >= MinImageLen
        /\ image.len < MinImageLen
             => /\ result' = "err"
                /\ Len(trace') = 1
                /\ loops' = loops]_vars

\* C19 witness: a mount verified and bound a 1024-byte image, too short to
\* hold the magic at offset 1080.
C19_Witness ==
  /\ lastOp \in MountOps
  /\ image.len = MinImageLen /\ image.len < MagicOffset + 2 /\ ~image.magic
  /\ VerifyStep(trace, "ok")
  /\ HasStep(trace, "losetup_assoc", "ok")

\* C20: on one handle, a bind that ran losetup binds exactly the device it
\* records, and a successful release right after it frees exactly that device
\* and empties the slot, so the pair leaves the set of bound devices as it
\* was; a bind while a device is recorded returns it and runs nothing; a
\* release with nothing recorded runs no command and succeeds.
C20_BindReleaseIdentity ==
  [][/\ (lastOp' = "setup_loop_device" /\ slot = None /\ result' = "ok")
          => \E d \in Dev :
               /\ loops[d] = "free"
               /\ loops' = [loops EXCEPT ![d] = "image"]
               /\ slot' = Some(LoopPath(d))
     /\ (lastOp' = "setup_loop_device" /\ slot # None)
          => /\ result' = "ok" /\ slot' = slot /\ loops' = loops /\ trace' = <<>>
     /\ (/\ lastOp = "setup_loop_device" /\ result = "ok"
         /\ lastOp' = "cleanup_loop_device" /\ result' = "ok")
          => /\ slot # None
             /\ loops' = [loops EXCEPT ![slot[1].num] = "free"]
             /\ slot' = None
     /\ (lastOp' = "cleanup_loop_device" /\ slot = None)
          => /\ result' = "ok" /\ slot' = None /\ loops' = loops
             /\ \A i \in 1 .. Len(trace') : trace'[i].out = "skip"]_vars

\* C20 witness: a bind on the fresh handle, then a release that ran
\* losetup -d, and every loop device is free again.
C20_Witness ==
  /\ lastOp = "cleanup_loop_device" /\ result = "ok"
  /\ prev.op = "setup_loop_device" /\ prev.result = "ok"
  /\ HasStep(trace, "losetup_d", "ok")
  /\ slot = None
  /\ BoundToImage = {}

FsSteps == <<"mount_ext4", "mount_ext3", "mount_ext2">>

IsFsStep(e) == \E k \in 1 .. Len(FsSteps) : e.step = FsSteps[k]

\* C23: whenever a mount call attaches the image, the device it mounts at
\* /dev/crashcart through the node /dev/cc-loop/crashcart is major 7 with the
\* minor of the loop device that call holds, also when a node from an
\* earlier attempt was already there.
C23_NodeNamesBoundDevice ==
  \A i \in 1 .. Len(trace) :
    (lastOp \in MountOps /\ IsFsStep(trace[i]) /\ trace[i].out = "ok")
    => /\ node = Some([major |-> LoopMajor, minor |-> trace[i].dev[1]])
       /\ cloneSlot # None
       /\ cloneSlot[1].num = trace[i].dev[1]

\* C24: a mount call that reaches the filesystem mount tries ext4, ext3 and
\* ext2 in that order and stops at the first that succeeds; it gives up only
\* after all three were rejected; every mount made is read-only.
C24_FsTypeFallback ==
  lastOp \in MountOps =>
    LET tries == SelectSeq(trace, IsFsStep)
    IN  /\ Len(tries) <= Len(FsSteps)
        /\ \A k \in 1 .. Len(tries) : tries[k].step = FsSteps[k]
        /\ \A k \in 1 .. (Len(tries) - 1) : tries[k].out = "fail"
        /\ (Len(tries) > 0 /\ tries[Len(tries)].out = "fail")
             => Len(tries) = Len(FsSteps)
        /\ \A i \in 1 .. Len(mounts) :
             mounts[i].mp = CRASHCART_MOUNT_PATH => mounts[i].ro

\* C26: every Pid(n) handle produced by detect has n >= 1.
C26_PidIsPositive ==
  (Resolved /\ proc.runtime # None /\ proc.runtime[1].kind = "Pid")
  => proc.runtime[1].pid # Some(<<"0">>)

\* C27: a mount or unmount of either strategy leaves the loop-device slot of
\* the caller's handle as it was, on success and on error.
C27_CallerHandleUnchanged ==
  [][lastOp' \in (MountOps \cup UnmountOps) => slot' = slot]_vars

\* C27 witness: a mount bound a loop device on its duplicate and returned
\* success; the caller's handle still records nothing.
C27_Witness ==
  /\ lastOp \in MountOps /\ result = "ok"
  /\ HasStep(trace, "losetup_assoc", "ok")
  /\ cloneSlot # None
  /\ slot = None

\* The exec step of main went through exec_in_namespace.
RanNsenter == proc.ran # None /\ proc.ran[1].program = "nsenter"

\* C21: exec_in_namespace returns the child's exit code when the child
\* exited, -1 when a signal ended it, and an error exactly when nsenter could
\* not be spawned.
C21_ExitCodeOfChild ==
  RanNsenter =>
    LET e == proc.ran[1]
    IN  /\ (e.ret = None) <=> ~e.spawned
        /\ (e.spawned /\ e.child # None) => e.ret = Some(e.child[1])
        /\ (e.spawned /\ e.child = None) => e.ret = Some(-1)
        /\ e.ret # None => (proc.code = e.ret /\ DidOp("exec", "ok"))
        /\ e.ret = None => DidOp("exec", "err")

\* C21 witness: nsenter was spawned, a signal ended the child, and main holds
\* -1 as the exit code.
C21_Witness ==
  /\ RanNsenter
  /\ proc.ran[1].spawned /\ proc.ran[1].child = None
  /\ proc.code = Some(-1)

NsenterFlags(pid) ==
  <<Str("-t"), pid, Str("-m"), Str("-u"), Str("-i"), Str("-n"), Str("-p"), Str("--")>>

\* C25: for a non-empty command nsenter gets -t <pid> -m -u -i -n -p --
\* followed by exactly the command's elements in order; only an empty command
\* is replaced by the default argv, which starts with the injected dynamic
\* linker.
C25_CommandPassedUnchanged ==
  RanNsenter =>
    LET argv == proc.ran[1].argv
        flags == NsenterFlags(proc.pid[1])
    IN  IF proc.command # <<>>
        THEN argv = flags \o [i \in 1 .. Len(proc.command) |-> Str(proc.command[i])]
        ELSE /\ Len(argv) > Len(flags)
             /\ SubSeq(argv, 1, Len(flags)) = flags
             /\ argv[Len(flags) + 1] = LdLinux

\* C22: releasing a guard calls setns on the caller's original descriptor
\* with the clone flag of the type that was entered, and once every guard of
\* enter_all_namespaces is released the caller is attached to its original
\* namespace of every type whose restoring call the kernel accepted.
C22_ReleaseUsesEntryFlag ==
  proc.pc = "released" =>
    /\ \A k \in 1 .. Len(proc.entered) :
         proc.entered[k].held
         => \E j \in 1 .. Len(proc.restores) :
              proc.restores[j].type = proc.entered[k].type
    /\ \A j \in 1 .. Len(proc.restores) :
         /\ proc.restores[j].flag = clone_flag(proc.restores[j].type)
         /\ proc.restores[j].ok
              => proc.attached[proc.restores[j].type]
                   = proc.original[proc.restores[j].type]

====
